---------------------------- MODULE Spec2Model ----------------------------
(***************************************************************************)
(* Booking lifecycle of the user-study calendar (src/Main.py).             *)
(*                                                                         *)
(* State: the bookings and blocked_slots tables, the participants table,   *)
(* the external Google calendars (events the application created), the     *)
(* wall clock, the deployment configuration, the settings table, the admin *)
(* requests in flight (for the step-level specifications) and a record of  *)
(* what the most recent request did and answered, the admin's session and  *)
(* whether Google credentials are stored.                                  *)
(*                                                                         *)
(* Times are minutes since local midnight of the first day shown; an       *)
(* interval is the pair of its start and end.  created_at is not modelled: *)
(* no handler reads it except to order listings.                           *)
(***************************************************************************)
EXTENDS Integers, Sequences, FiniteSets, TLC

VARIABLES
    bookings,      \* the bookings table: row id = index
    blocked,       \* the blocked_slots table, as the set of its (start, end) rows
    participants,  \* the participants table: row id = index
    events,        \* every event the application inserted: event id = index
    now,           \* datetime.now(TZ)
    config,        \* CALENDAR_ID and SMTP_HOST, read once from the environment
    settings,      \* the settings table: key -> value
    session,       \* the browser session of the admin: is 'authenticated' in it
    google_token,  \* are Google credentials stored (token file or environment)
    reqs,          \* admin requests in flight (step-level specifications only)
    last           \* what the most recent finished request did and returned

vars == <<bookings, blocked, participants, events, now, config, settings,
          session, google_token, reqs, last>>

-----------------------------------------------------------------------------
(* Bounds of the model *)

MaxBookings == 1      \* rows the bookings table may hold
MaxPairBookings == 2  \* rows it may hold in the specification of two submissions
MaxEvents   == 3      \* events the application may insert
Now0        == 500    \* the clock at start: 08:20
NReqs       == 2      \* admin requests that may be in flight together
MaxSlotBookings == 1  \* rows the table may hold in the specification of the page
DaysShown   == 1      \* days of the page (the code shows 7)
TickStep    == 40     \* minutes by which the clock advances in one step
MaxNow      == 540    \* the clock stops once it has reached 09:00

(* Program constants *)

NULL          == -1   \* SQL NULL of a TEXT/TIMESTAMP column
OneHour       == 60   \* timedelta(hours=1)
OneMinute     == 1    \* timedelta(minutes=1)
FirstHour     == 9    \* start.hour >= 9
LastHour      == 25   \* end.hour <= 25
HoursPerDay   == 24   \* datetime.hour is in 0..23

Hour(t) == (t \div OneHour) % HoursPerDay

-----------------------------------------------------------------------------
(* The inputs requests are drawn from *)

\* The candidate slots requests name: 08:30-09:30 (before the window),
\* 09:00-10:00, 09:30-10:30 and 09:00-10:30 (ninety minutes).
SlotEarly == <<510, 570>>
SlotA     == <<540, 600>>
SlotB     == <<570, 630>>
SlotLong  == <<540, 630>>

\* An absent start{i}/end{i} parameter of /book.
Absent == <<>>

\* The /book requests of the lifecycle specification.  Participant A sends
\* one candidate and two candidates, participant B three; then one request
\* for each way book can end early: a gap in the numbering (which is no
\* error), a candidate of ninety minutes, a candidate before 09:00, no
\* candidate, an unknown token, no token, no calendar service, and a
\* free/busy query that raises at the first or at the second candidate.
\* Each request is <<token, start/end 1..3, svcOk, fbFailAt>>.
BookRequests ==
    { <<"tokA",    <<SlotA, Absent, Absent>>,     TRUE,  0>>,
      <<"tokA",    <<SlotA, SlotB, Absent>>,      TRUE,  0>>,
      <<"tokB",    <<SlotB, SlotA, SlotB>>,       TRUE,  0>>,
      <<"tokA",    <<Absent, SlotA, Absent>>,     TRUE,  0>>,
      <<"tokA",    <<SlotA, SlotLong, Absent>>,   TRUE,  0>>,
      <<"tokB",    <<SlotEarly, Absent, Absent>>, TRUE,  0>>,
      <<"tokA",    <<Absent, Absent, Absent>>,    TRUE,  0>>,
      <<"unknown", <<SlotA, Absent, Absent>>,     TRUE,  0>>,
      <<"",        <<SlotA, Absent, Absent>>,     TRUE,  0>>,
      <<"tokA",    <<SlotA, Absent, Absent>>,     FALSE, 0>>,
      <<"tokA",    <<SlotA, SlotB, Absent>>,      TRUE,  1>>,
      <<"tokA",    <<SlotA, SlotB, Absent>>,      TRUE,  2>> }

\* The intervals an approve_{id}_{start}_{end} action may carry.
ApproveInputs == { SlotA, SlotB }

\* What the provider and the mail channels may answer to one admin request,
\* listed once per distinguishable case: whether calendar_service() returns,
\* whether the first and the second insert/delete call get through, whether
\* the Gmail API and SMTP deliver.
Answers ==
    { <<FALSE, FALSE, FALSE, FALSE, FALSE>>,
      <<TRUE,  FALSE, FALSE, TRUE,  FALSE>>,
      <<TRUE,  FALSE, FALSE, FALSE, TRUE>>,
      <<TRUE,  FALSE, FALSE, FALSE, FALSE>> }
    \cup { <<TRUE, c[1], c[2], m[1], m[2]>> :
             c \in { <<TRUE, FALSE>>, <<FALSE, TRUE>> },
             m \in { <<TRUE, FALSE>>, <<FALSE, TRUE>>, <<FALSE, FALSE>> } }

InitParticipants ==
    << [name |-> "A", email |-> "a@x", token |-> "tokA"],
       [name |-> "B", email |-> "b@x", token |-> "tokB"] >>

\* The deployments considered: a shared calendar with SMTP configured, and the
\* primary calendar without SMTP.
Configs ==
    { [CALENDAR_ID |-> "shared",  SMTP_HOST |-> TRUE],
      [CALENDAR_ID |-> "primary", SMTP_HOST |-> FALSE] }

\* Texts are sequences of fragments; the placeholders {{name}} and {{link}}
\* are fragments of their own.  The two default invitation templates of
\* init_db (the one it inserts when the key is missing, and the one it
\* writes over the stored value), and the default consent page.
InsertedEmailBody ==
    << "Hi ", "{{name}}",
       ", ... select your preferred time slot: CALENDAR LINK: ", "{{link}}",
       " ... see all open time slots." >>

DefaultEmailBody ==
    << "Hi ", "{{name}}",
       ", ... $15 CAD Amazon gift card ... (choose 3 options): CALENDAR LINK: ",
       "{{link}}", " ... select up to 3 preferred time slots." >>

DefaultConsentHtml == << "<h2>Consent Form</h2>..." >>

\* SELECT v FROM settings WHERE k=?, "" when there is no row
get_setting(st, key) == IF key \in DOMAIN st THEN st[key] ELSE <<>>

\* INSERT INTO settings(k,v) ... ON CONFLICT(k) DO UPDATE SET v=excluded.v
set_setting(st, key, val) == (key :> val) @@ st

\* The settings part of init_db, which runs whenever the module is loaded:
\* the two defaults are inserted where the key is missing, and the
\* invitation template is then set to the current default text.
init_db(st) ==
    LET st1 == IF "email_body" \in DOMAIN st THEN st
               ELSE set_setting(st, "email_body", InsertedEmailBody)
        st2 == IF "consent_html" \in DOMAIN st1 THEN st1
               ELSE set_setting(st1, "consent_html", DefaultConsentHtml)
    IN  [st2 EXCEPT !["email_body"] = DefaultEmailBody]

\* The settings table after init_db has run on a new database.
InitSettings == init_db(<< >>)

\* A worker that is serving no admin request.
IdleReq == [pc |-> "idle", op |-> "none", id |-> 0, s |-> NULL, e |-> NULL,
            eid |-> NULL, calls |-> <<>>]

NoLast == [op |-> "none", bid |-> 0, resp |-> "none", calls |-> <<>>, mails |-> <<>>]

Init ==
    /\ bookings = <<>>
    /\ blocked = {}
    /\ participants = InitParticipants
    /\ events = <<>>
    /\ now = Now0
    /\ config \in Configs
    /\ settings = InitSettings
    /\ session = FALSE
    /\ google_token = TRUE
    /\ reqs = [r \in 1..NReqs |-> IdleReq]
    /\ last = NoLast

-----------------------------------------------------------------------------
(* Availability Oracle *)

\* Mutant of Overlaps: intervals that only touch are taken to overlap.
Overlaps_Closed(s, e, bs, be) == ~(e < bs \/ s > be)

\* The half-open overlap test of is_free.
Overlaps(s, e, bs, be) == ~(e <= bs \/ s >= be)

\* The busy blocks the free/busy query returns for CALENDAR_ID in the window
\* [tmin, tmax]: the live events of that calendar that intersect the window,
\* clipped to it.
Max(a, b) == IF a >= b THEN a ELSE b
Min(a, b) == IF a <= b THEN a ELSE b

freebusy_blocks(evs, calId, tmin, tmax) ==
    { <<Max(evs[i].start, tmin), Min(evs[i].end, tmax)>> :
        i \in { j \in DOMAIN evs : /\ evs[j].live
                                   /\ evs[j].cal = calId
                                   /\ evs[j].start < tmax
                                   /\ evs[j].end > tmin } }

\* is_free: an exact-match lookup in blocked_slots, then the overlap test
\* against the busy blocks of the window padded by one minute.
is_free(blk, evs, calId, s, e) ==
    IF <<s, e>> \in blk
    THEN FALSE
    ELSE \A b \in freebusy_blocks(evs, calId, s - OneMinute, e + OneMinute) :
            ~Overlaps(s, e, b[1], b[2])


-----------------------------------------------------------------------------
(* Rows and statements of the bookings table *)

\* The row INSERTed by book for 1, 2 or 3 validated slots: the columns not
\* named by the INSERT take their defaults.
NewBooking(pid, vs) ==
    [ participant_id      |-> pid,
      preference1_start   |-> vs[1][1],
      preference1_end     |-> vs[1][2],
      preference2_start   |-> IF Len(vs) >= 2 THEN vs[2][1] ELSE NULL,
      preference2_end     |-> IF Len(vs) >= 2 THEN vs[2][2] ELSE NULL,
      preference3_start   |-> IF Len(vs) >= 3 THEN vs[3][1] ELSE NULL,
      preference3_end     |-> IF Len(vs) >= 3 THEN vs[3][2] ELSE NULL,
      selected_start_time |-> NULL,
      selected_end_time   |-> NULL,
      status              |-> "pending",
      calendar_event_id   |-> NULL,
      admin_confirmed_at  |-> NULL ]

\* Mutant of SelectPending: the status test is dropped from the WHERE clause.
SelectPending_AnyStatus(bks, id) == id \in DOMAIN bks

\* SELECT ... WHERE b.id = ? AND b.status = 'pending'
SelectPending(bks, id) == id \in DOMAIN bks /\ bks[id].status = "pending"

\* SELECT ... WHERE b.id = ? AND b.status = 'confirmed'
SelectConfirmed(bks, id) == id \in DOMAIN bks /\ bks[id].status = "confirmed"

\* Mutant of UpdateConfirmed: the row keeps only the candidate selected.
UpdateConfirmed_KeepsOnlySelected(bks, id, s, e, eid, ts) ==
    IF id \in DOMAIN bks
    THEN [bks EXCEPT ![id] = [@ EXCEPT !.status = "confirmed",
                                       !.preference1_start = s,
                                       !.preference1_end = e,
                                       !.preference2_start = NULL,
                                       !.preference2_end = NULL,
                                       !.preference3_start = NULL,
                                       !.preference3_end = NULL,
                                       !.selected_start_time = s,
                                       !.selected_end_time = e,
                                       !.calendar_event_id = eid,
                                       !.admin_confirmed_at = ts]]
    ELSE bks

\* UPDATE bookings SET status = 'confirmed', selected_start_time = ?,
\*   selected_end_time = ?, calendar_event_id = ?, admin_confirmed_at = now
\* WHERE id = ?
UpdateConfirmed(bks, id, s, e, eid, ts) ==
    IF id \in DOMAIN bks
    THEN [bks EXCEPT ![id] = [@ EXCEPT !.status = "confirmed",
                                       !.selected_start_time = s,
                                       !.selected_end_time = e,
                                       !.calendar_event_id = eid,
                                       !.admin_confirmed_at = ts]]
    ELSE bks

\* Mutant of UpdateRejected: the status test is dropped from the WHERE clause.
UpdateRejected_NoStatusGuard(bks, id, ts) ==
    IF id \in DOMAIN bks
    THEN [bks EXCEPT ![id] = [@ EXCEPT !.status = "rejected",
                                       !.admin_confirmed_at = ts]]
    ELSE bks

\* UPDATE bookings SET status = 'rejected', admin_confirmed_at = now
\* WHERE id = ? AND status = 'pending'
UpdateRejected(bks, id, ts) ==
    IF id \in DOMAIN bks /\ bks[id].status = "pending"
    THEN [bks EXCEPT ![id] = [@ EXCEPT !.status = "rejected",
                                       !.admin_confirmed_at = ts]]
    ELSE bks

\* Mutant of UpdateRemoved: calendar_event_id is left as it is.
UpdateRemoved_KeepsEventId(bks, id) ==
    IF id \in DOMAIN bks
    THEN [bks EXCEPT ![id] = [@ EXCEPT !.status = "removed_by_admin"]]
    ELSE bks

\* UPDATE bookings SET status = 'removed_by_admin', calendar_event_id = NULL
\* WHERE id = ?
UpdateRemoved(bks, id) ==
    IF id \in DOMAIN bks
    THEN [bks EXCEPT ![id] = [@ EXCEPT !.status = "removed_by_admin",
                                       !.calendar_event_id = NULL]]
    ELSE bks

-----------------------------------------------------------------------------
(* Calendar Synchronizer and Notification Dispatcher *)

\* calendar_id_to_use = CALENDAR_ID or "primary"
calendar_id_to_use(calId) == IF calId = "" THEN "primary" ELSE calId

\* Mutant of InsertCalls: the primary calendar is tried whatever the first
\* call answered.
InsertCalls_AlwaysFallsBack(calId, ok1, ok2) ==
    LET c == calendar_id_to_use(calId)
    IN  IF c = "primary"
        THEN << [fn |-> "insert", cal |-> c, ok |-> ok1] >>
        ELSE << [fn |-> "insert", cal |-> c, ok |-> ok1],
                [fn |-> "insert", cal |-> "primary", ok |-> ok2] >>

\* The events().insert calls of one Approve: the configured calendar first
\* and, if that call raised and the calendar is not already "primary", the
\* primary calendar.  ok1 and ok2 are what the two calls would answer.
InsertCalls(calId, ok1, ok2) ==
    LET c == calendar_id_to_use(calId)
    IN  IF ok1 \/ c = "primary"
        THEN << [fn |-> "insert", cal |-> c, ok |-> ok1] >>
        ELSE << [fn |-> "insert", cal |-> c, ok |-> ok1],
                [fn |-> "insert", cal |-> "primary", ok |-> ok2] >>

\* An events().delete call answers success only if the provider is reachable
\* and the event is a live event of the calendar addressed.
DeleteOk(evs, eid, cal, up) ==
    up /\ eid \in DOMAIN evs /\ evs[eid].live /\ evs[eid].cal = cal

\* The events().delete calls of one Remove, with the same fallback.
DeleteCalls(evs, eid, calId, up1, up2) ==
    LET c  == calendar_id_to_use(calId)
        r1 == DeleteOk(evs, eid, c, up1)
    IN  IF r1 \/ c = "primary"
        THEN << [fn |-> "delete", cal |-> c, ok |-> r1] >>
        ELSE << [fn |-> "delete", cal |-> c, ok |-> r1],
                [fn |-> "delete", cal |-> "primary",
                 ok |-> DeleteOk(evs, eid, "primary", up2)] >>

\* Mutant of CallsOk: a failure of the last call is taken for a success.
CallsOk_AnyAttempt(calls) == Len(calls) > 0

\* A sequence of calls succeeded iff its last call did.
CallsOk(calls) == Len(calls) > 0 /\ calls[Len(calls)].ok

\* The event the provider stores for a successful insert.
NewEvent(bid, calls, s, e) ==
    [bid |-> bid, cal |-> calls[Len(calls)].cal, start |-> s, end |-> e,
     live |-> TRUE]

\* Mutant of MailCalls: SMTP is tried whatever the Gmail API answered.
MailCalls_BothChannels(smtpHost, gm, sm) ==
    IF ~smtpHost
    THEN << [chan |-> "gmail", ok |-> gm] >>
    ELSE << [chan |-> "gmail", ok |-> gm], [chan |-> "smtp", ok |-> sm] >>

\* send_confirmation_email, and the cancellation email of Remove: the Gmail
\* API first; SMTP only after a Gmail failure and only if SMTP_HOST is set.
MailCalls(smtpHost, gm, sm) ==
    IF gm \/ ~smtpHost
    THEN << [chan |-> "gmail", ok |-> gm] >>
    ELSE << [chan |-> "gmail", ok |-> gm], [chan |-> "smtp", ok |-> sm] >>


-----------------------------------------------------------------------------
(* book: the participant's submission (GET /book) *)

\* The (start, end) pairs of the request: parameter i counts only if both
\* start{i} and end{i} are present.
RequestSlots(params) ==
    LET F[i \in 0..3] ==
            IF i = 0 THEN <<>>
            ELSE IF params[i] = Absent THEN F[i - 1]
                 ELSE Append(F[i - 1], params[i])
    IN  F[3]

\* SELECT * FROM participants WHERE token = ?: the ids of the matching rows.
ParticipantsByToken(ps, token) == { i \in DOMAIN ps : ps[i].token = token }

\* Mutant of SlotRule: a slot that starts now is not past.
SlotRule_StartsNow(s, e, nowl) ==
    IF e - s # OneHour THEN "invalid_length"
    ELSE IF s < nowl THEN "past"
    ELSE IF ~(Hour(s) >= FirstHour /\ Hour(e) <= LastHour) THEN "outside_hours"
    ELSE "ok"

\* The business rules of one slot, in the order the code tests them.
SlotRule(s, e, nowl) ==
    IF e - s # OneHour THEN "invalid_length"
    ELSE IF s <= nowl THEN "past"
    ELSE IF ~(Hour(s) >= FirstHour /\ Hour(e) <= LastHour) THEN "outside_hours"
    ELSE "ok"

\* Mutant of ValidateSlots: only the first slot is validated.
ValidateSlots_FirstOnly(slots, i, k, fbFailAt, blk, evs, calId, nowl) ==
    IF i > Len(slots) THEN "ok"
    ELSE LET s == slots[i][1]
             e == slots[i][2]
             rule == SlotRule(s, e, nowl)
         IN  IF rule # "ok" THEN rule
             ELSE IF k + 1 = fbFailAt THEN "error_500"
             ELSE IF ~is_free(blk, evs, calId, s, e) THEN "taken"
             ELSE "ok"

\* The validation loop of book over the slots from index i on; k counts the
\* is_free calls made so far and fbFailAt names the call whose free/busy query
\* raises (0: none does).  The answer is "ok" or the reason the loop ended.
RECURSIVE ValidateSlots(_, _, _, _, _, _, _, _)
ValidateSlots(slots, i, k, fbFailAt, blk, evs, calId, nowl) ==
    IF i > Len(slots) THEN "ok"
    ELSE LET s == slots[i][1]
             e == slots[i][2]
             rule == SlotRule(s, e, nowl)
         IN  IF rule # "ok" THEN rule
             ELSE IF k + 1 = fbFailAt THEN "error_500"
             ELSE IF ~is_free(blk, evs, calId, s, e) THEN "taken"
             ELSE ValidateSlots(slots, i + 1, k + 1, fbFailAt, blk, evs, calId, nowl)

\* What book answers, before it writes anything.
BookOutcome(token, params, svcOk, fbFailAt) ==
    LET slots == RequestSlots(params)
    IN  IF token = "" \/ slots = <<>> THEN "abort_400"
        ELSE IF ParticipantsByToken(participants, token) = {} THEN "abort_404"
        ELSE IF ~svcOk THEN "error_500"
        ELSE ValidateSlots(slots, 1, 0, fbFailAt, blocked, events,
                           config.CALENDAR_ID, now)

\* Mutant of book: a submission holds its candidates by blocking them.
book_HoldsCandidates(token, params, svcOk, fbFailAt, maxRows) ==
    LET out == BookOutcome(token, params, svcOk, fbFailAt)
        pid == CHOOSE i \in ParticipantsByToken(participants, token) : TRUE
        slots == RequestSlots(params)
    IN  /\ IF out = "ok"
           THEN /\ Len(bookings) < maxRows
                /\ bookings' = Append(bookings, NewBooking(pid, slots))
                /\ blocked' = blocked \cup { slots[i] : i \in DOMAIN slots }
                /\ last' = [op |-> "book", bid |-> Len(bookings) + 1, resp |-> "submitted",
                            calls |-> <<>>, mails |-> <<>>,
                            req |-> <<token, params>>]
           ELSE /\ bookings' = bookings
                /\ blocked' = blocked
                /\ last' = [op |-> "book", bid |-> 0, resp |-> out,
                            calls |-> <<>>, mails |-> <<>>,
                            req |-> <<token, params>>]
        /\ UNCHANGED <<session, google_token, settings, participants, events, now, config, reqs>>

\* maxRows caps the table: a submission that would add a row beyond it is
\* not considered.  The record of the request keeps the token and the
\* start{i}/end{i} parameters it was sent with.
book(token, params, svcOk, fbFailAt, maxRows) ==
    LET out == BookOutcome(token, params, svcOk, fbFailAt)
        pid == CHOOSE i \in ParticipantsByToken(participants, token) : TRUE
    IN  /\ IF out = "ok"
           THEN /\ Len(bookings) < maxRows
                /\ bookings' = Append(bookings, NewBooking(pid, RequestSlots(params)))
                /\ last' = [op |-> "book", bid |-> Len(bookings) + 1, resp |-> "submitted",
                            calls |-> <<>>, mails |-> <<>>,
                            req |-> <<token, params>>]
           ELSE /\ bookings' = bookings
                /\ last' = [op |-> "book", bid |-> 0, resp |-> out,
                            calls |-> <<>>, mails |-> <<>>,
                            req |-> <<token, params>>]
        /\ UNCHANGED <<session, google_token, settings, blocked, participants, events, now, config, reqs>>

-----------------------------------------------------------------------------
(* admin_bookings: Approve, Reject and Remove, each run to completion *)

\* action = approve_{id}_{start}_{end}.  svcOk: calendar_service() returns;
\* ok1, ok2: the answers of the insert calls; gm, sm: of the mail channels.
\* start and end are well-formed ISO times (datetime.fromisoformat raises on
\* anything else, before any call or write); they are not compared with the
\* row's candidates, and is_free is not consulted.
approve(id, s, e, svcOk, ok1, ok2, gm, sm) ==
    LET calls == IF svcOk THEN InsertCalls(config.CALENDAR_ID, ok1, ok2) ELSE <<>>
        eid   == Len(events) + 1
    IN  /\ IF ~SelectPending(bookings, id)
           THEN /\ last' = [op |-> "approve", bid |-> id, resp |-> "admin",
                            calls |-> <<>>, mails |-> <<>>]
                /\ UNCHANGED <<bookings, events>>
           ELSE IF ~CallsOk(calls)
           THEN /\ last' = [op |-> "approve", bid |-> id, resp |-> "admin",
                            calls |-> calls, mails |-> <<>>]
                /\ UNCHANGED <<bookings, events>>
           ELSE /\ Len(events) < MaxEvents
                /\ events' = Append(events, NewEvent(id, calls, s, e))
                /\ bookings' = UpdateConfirmed(bookings, id, s, e, eid, now)
                /\ last' = [op |-> "approve", bid |-> id, resp |-> "booking_approved",
                            calls |-> calls,
                            mails |-> MailCalls(config.SMTP_HOST, gm, sm)]
        /\ UNCHANGED <<session, google_token, settings, blocked, participants, now, config, reqs>>

\* Mutant of reject: the participant is told of the rejection by email.
reject_Notifies(id) ==
    /\ bookings' = UpdateRejected(bookings, id, now)
    /\ last' = [op |-> "reject", bid |-> id, resp |-> "booking_rejected",
                calls |-> <<>>,
                mails |-> IF SelectPending(bookings, id)
                          THEN MailCalls(config.SMTP_HOST, TRUE, FALSE)
                          ELSE <<>>]
    /\ UNCHANGED <<session, google_token, settings, blocked, participants, events, now, config, reqs>>

\* action = reject_{id}
reject(id) ==
    /\ bookings' = UpdateRejected(bookings, id, now)
    /\ last' = [op |-> "reject", bid |-> id, resp |-> "booking_rejected",
                calls |-> <<>>, mails |-> <<>>]
    /\ UNCHANGED <<session, google_token, settings, blocked, participants, events, now, config, reqs>>

\* The provider's events after the delete calls of a Remove.
AfterDelete(evs, eid, calls) ==
    IF CallsOk(calls) THEN [evs EXCEPT ![eid].live = FALSE] ELSE evs

\* action = remove_{id}.  svcOk: calendar_service() returns; up1, up2: the
\* provider is reachable for the delete calls; gm, sm: the mail channels.
remove(id, svcOk, up1, up2, gm, sm) ==
    LET hasEvent == bookings[id].calendar_event_id # NULL
        eid      == bookings[id].calendar_event_id
        calls    == IF hasEvent
                    THEN DeleteCalls(events, eid, config.CALENDAR_ID, up1, up2)
                    ELSE <<>>
    IN  /\ IF ~SelectConfirmed(bookings, id)
           THEN /\ last' = [op |-> "remove", bid |-> id, resp |-> "booking_not_found",
                            calls |-> <<>>, mails |-> <<>>]
                /\ UNCHANGED <<bookings, events>>
           ELSE IF hasEvent /\ ~svcOk
           THEN /\ last' = [op |-> "remove", bid |-> id, resp |-> "removal_failed",
                            calls |-> <<>>, mails |-> <<>>]
                /\ UNCHANGED <<bookings, events>>
           ELSE /\ events' = AfterDelete(events, eid, calls)
                /\ bookings' = UpdateRemoved(bookings, id)
                /\ last' = [op |-> "remove", bid |-> id, resp |-> "booking_removed",
                            calls |-> calls,
                            mails |-> MailCalls(config.SMTP_HOST, gm, sm)]
        /\ UNCHANGED <<session, google_token, settings, blocked, participants, now, config, reqs>>

-----------------------------------------------------------------------------
(* Requests served one at a time *)
(*                                                                         *)
(* The admin requests of this and of the following specifications are the  *)
(* bodies of the handlers, as an authenticated session runs them, with the *)
(* Google credentials in place; require_auth and the routes that remove    *)
(* the credentials are the subject of the specification of the admin's     *)
(* session further down.                                                   *)

\* The ids an admin action may name: every row, and one id that has no row.
BookingIds == 1..(Len(bookings) + 1)

Submit ==
    \E rq \in BookRequests : book(rq[1], rq[2], rq[3], rq[4], MaxBookings)

\* A request whose SELECT finds no row consults neither the provider nor the
\* mail channels, and an Approve does not look at its interval: one choice
\* of them stands for all.
AnswersFor(found) == IF found THEN Answers ELSE {<<TRUE, TRUE, FALSE, TRUE, FALSE>>}
IntervalsFor(found) == IF found THEN ApproveInputs ELSE {SlotA}

Approve ==
    \E id \in BookingIds :
        \E iv \in IntervalsFor(SelectPending(bookings, id)),
           a \in AnswersFor(SelectPending(bookings, id)) :
            approve(id, iv[1], iv[2], a[1], a[2], a[3], a[4], a[5])

Reject == \E id \in BookingIds : reject(id)

Remove ==
    \E id \in BookingIds :
        \E a \in AnswersFor(SelectConfirmed(bookings, id)) :
            remove(id, a[1], a[2], a[3], a[4], a[5])

Next == Submit \/ Approve \/ Reject \/ Remove

Spec == Init /\ [][Next]_vars

-----------------------------------------------------------------------------
(* Two submissions, requests served one at a time, provider and mail up *)

PairBookRequests ==
    { <<"tokA", <<SlotA, SlotB, Absent>>, TRUE, 0>>,
      <<"tokB", <<SlotB, SlotA, SlotB>>,  TRUE, 0>> }

PairSubmit ==
    \E rq \in PairBookRequests : book(rq[1], rq[2], rq[3], rq[4], MaxPairBookings)

PairApprove ==
    \E id \in BookingIds, iv \in ApproveInputs :
        approve(id, iv[1], iv[2], TRUE, TRUE, FALSE, TRUE, FALSE)

PairRemove ==
    \E id \in BookingIds, up \in BOOLEAN :
        remove(id, TRUE, up, up, TRUE, FALSE)

NextPair == PairSubmit \/ PairApprove \/ Reject \/ PairRemove

SpecPair == Init /\ [][NextPair]_vars

-----------------------------------------------------------------------------
(* admin_bookings statement by statement: requests served concurrently *)
(*                                                                         *)
(* Each SQL statement and each exchange with the provider is one step; a   *)
(* worker r holds the local variables of the request it serves.  Reject is *)
(* a single UPDATE and book writes only with its final INSERT, so each is  *)
(* one step here as well.                                                  *)

Finish(r, rec) ==
    /\ reqs' = [reqs EXCEPT ![r] = IdleReq]
    /\ last' = rec

\* Approve: SELECT ... WHERE b.id = ? AND b.status = 'pending'
ApproveSelect(r, id, s, e) ==
    /\ reqs[r].pc = "idle"
    /\ IF SelectPending(bookings, id)
       THEN /\ reqs' = [reqs EXCEPT ![r] = [pc |-> "insert", op |-> "approve", id |-> id,
                                            s |-> s, e |-> e, eid |-> NULL,
                                            calls |-> <<>>]]
            /\ last' = last
       ELSE Finish(r, [op |-> "approve", bid |-> id, resp |-> "admin",
                       calls |-> <<>>, mails |-> <<>>])
    /\ UNCHANGED <<session, google_token, settings, bookings, blocked, participants, events, now, config>>

\* Approve: calendar_service() and the events().insert calls
ApproveInsert(r, svcOk, ok1, ok2) ==
    LET q     == reqs[r]
        calls == IF svcOk THEN InsertCalls(config.CALENDAR_ID, ok1, ok2) ELSE <<>>
    IN  /\ q.pc = "insert"
        /\ IF CallsOk(calls)
           THEN /\ Len(events) < MaxEvents
                /\ events' = Append(events, NewEvent(q.id, calls, q.s, q.e))
                /\ reqs' = [reqs EXCEPT ![r] = [q EXCEPT !.pc = "update",
                                                         !.eid = Len(events) + 1,
                                                         !.calls = calls]]
                /\ last' = last
           ELSE /\ events' = events
                /\ Finish(r, [op |-> "approve", bid |-> q.id, resp |-> "admin",
                              calls |-> calls, mails |-> <<>>])
        /\ UNCHANGED <<session, google_token, settings, bookings, blocked, participants, now, config>>

\* Approve: the UPDATE
ApproveUpdate(r) ==
    LET q == reqs[r]
    IN  /\ q.pc = "update" /\ q.op = "approve"
        /\ bookings' = UpdateConfirmed(bookings, q.id, q.s, q.e, q.eid, now)
        /\ reqs' = [reqs EXCEPT ![r] = [q EXCEPT !.pc = "mail"]]
        /\ UNCHANGED <<session, google_token, settings, blocked, participants, events, now, config, last>>

\* Mutant of ApproveMail: a confirmation no channel delivered puts the row
\* back to pending and is answered as a failure.
ApproveMail_RollsBack(r, gm, sm) ==
    LET q     == reqs[r]
        mails == MailCalls(config.SMTP_HOST, gm, sm)
        sent  == \E k \in DOMAIN mails : mails[k].ok
    IN  /\ q.pc = "mail" /\ q.op = "approve"
        /\ bookings' = IF sent THEN bookings
                       ELSE [bookings EXCEPT ![q.id] =
                                [@ EXCEPT !.status = "pending",
                                          !.selected_start_time = NULL,
                                          !.selected_end_time = NULL,
                                          !.calendar_event_id = NULL]]
        /\ Finish(r, [op |-> "approve", bid |-> q.id,
                      resp |-> IF sent THEN "booking_approved" ELSE "admin",
                      calls |-> q.calls, mails |-> mails])
        /\ UNCHANGED <<session, google_token, settings, blocked, participants, events, now, config>>

\* Approve: send_confirmation_email and the redirect
ApproveMail(r, gm, sm) ==
    LET q == reqs[r]
    IN  /\ q.pc = "mail" /\ q.op = "approve"
        /\ Finish(r, [op |-> "approve", bid |-> q.id, resp |-> "booking_approved",
                      calls |-> q.calls,
                      mails |-> MailCalls(config.SMTP_HOST, gm, sm)])
        /\ UNCHANGED <<session, google_token, settings, bookings, blocked, participants, events, now, config>>

\* Reject: the UPDATE ... WHERE id = ? AND status = 'pending'
RejectUpdate(id) ==
    /\ bookings' = UpdateRejected(bookings, id, now)
    /\ last' = [op |-> "reject", bid |-> id, resp |-> "booking_rejected",
                calls |-> <<>>, mails |-> <<>>]
    /\ UNCHANGED <<session, google_token, settings, blocked, participants, events, now, config, reqs>>

\* Remove: SELECT ... WHERE b.id = ? AND b.status = 'confirmed'
RemoveSelect(r, id) ==
    /\ reqs[r].pc = "idle"
    /\ IF SelectConfirmed(bookings, id)
       THEN /\ reqs' = [reqs EXCEPT ![r] = [pc |-> "delete", op |-> "remove", id |-> id,
                                            s |-> bookings[id].selected_start_time,
                                            e |-> bookings[id].selected_end_time,
                                            eid |-> bookings[id].calendar_event_id,
                                            calls |-> <<>>]]
            /\ last' = last
       ELSE Finish(r, [op |-> "remove", bid |-> id, resp |-> "booking_not_found",
                       calls |-> <<>>, mails |-> <<>>])
    /\ UNCHANGED <<session, google_token, settings, bookings, blocked, participants, events, now, config>>

\* Remove: calendar_service() and the events().delete calls, made only if
\* the row read has an event id
RemoveDelete(r, svcOk, up1, up2) ==
    LET q     == reqs[r]
        calls == IF q.eid # NULL
                 THEN DeleteCalls(events, q.eid, config.CALENDAR_ID, up1, up2)
                 ELSE <<>>
    IN  /\ q.pc = "delete"
        /\ IF q.eid # NULL /\ ~svcOk
           THEN /\ events' = events
                /\ Finish(r, [op |-> "remove", bid |-> q.id, resp |-> "removal_failed",
                              calls |-> <<>>, mails |-> <<>>])
           ELSE /\ events' = AfterDelete(events, q.eid, calls)
                /\ reqs' = [reqs EXCEPT ![r] = [q EXCEPT !.pc = "update", !.calls = calls]]
                /\ last' = last
        /\ UNCHANGED <<session, google_token, settings, bookings, blocked, participants, now, config>>

\* Remove: the UPDATE
RemoveUpdate(r) ==
    LET q == reqs[r]
    IN  /\ q.pc = "update" /\ q.op = "remove"
        /\ bookings' = UpdateRemoved(bookings, q.id)
        /\ reqs' = [reqs EXCEPT ![r] = [q EXCEPT !.pc = "mail"]]
        /\ UNCHANGED <<session, google_token, settings, blocked, participants, events, now, config, last>>

\* Remove: the cancellation email and the redirect
RemoveMail(r, gm, sm) ==
    LET q == reqs[r]
    IN  /\ q.pc = "mail" /\ q.op = "remove"
        /\ Finish(r, [op |-> "remove", bid |-> q.id, resp |-> "booking_removed",
                      calls |-> q.calls,
                      mails |-> MailCalls(config.SMTP_HOST, gm, sm)])
        /\ UNCHANGED <<session, google_token, settings, bookings, blocked, participants, events, now, config>>

\* The requests of the step-level specifications: two submissions, and a
\* provider and mail channels that answer.
ConcBookRequests ==
    { <<"tokA", <<SlotA, Absent, Absent>>, TRUE, 0>>,
      <<"tokB", <<SlotB, SlotA, SlotB>>,   TRUE, 0>> }

Workers == 1..NReqs

ConcSubmit ==
    \E rq \in ConcBookRequests : book(rq[1], rq[2], rq[3], rq[4], MaxBookings)

\* The steps worker r may take for an Approve and for a Remove.
StepApprove(r) ==
    \/ \E id \in BookingIds, iv \in ApproveInputs : ApproveSelect(r, id, iv[1], iv[2])
    \/ \E svcOk \in BOOLEAN : ApproveInsert(r, svcOk, TRUE, FALSE)
    \/ ApproveUpdate(r)
    \/ ApproveMail(r, TRUE, FALSE)

StepRemove(r) ==
    \/ \E id \in BookingIds : RemoveSelect(r, id)
    \/ \E up \in BOOLEAN : RemoveDelete(r, TRUE, up, up)
    \/ RemoveUpdate(r)
    \/ RemoveMail(r, TRUE, FALSE)

ConcApprove == \E r \in Workers : StepApprove(r)

ConcReject == \E id \in BookingIds : RejectUpdate(id)

ConcRemove == \E r \in Workers : StepRemove(r)

NextConc == ConcSubmit \/ ConcApprove \/ ConcReject \/ ConcRemove

SpecConc == Init /\ [][NextConc]_vars

-----------------------------------------------------------------------------
(* Failures between the statements of a request *)

\* The UPDATE of Approve raises (sqlite3.OperationalError: the database is
\* locked or cannot be written); the handler's except clause answers with
\* the redirect to the admin page.
ApproveUpdateFails(r) ==
    LET q == reqs[r]
    IN  /\ q.pc = "update" /\ q.op = "approve"
        /\ Finish(r, [op |-> "approve", bid |-> q.id, resp |-> "admin",
                      calls |-> q.calls, mails |-> <<>>])
        /\ UNCHANGED <<session, google_token, settings, bookings, blocked, participants, events, now, config>>

\* The process serving request r dies: the request never answers.
Crash(r) ==
    /\ reqs[r].pc # "idle"
    /\ reqs' = [reqs EXCEPT ![r] = IdleReq]
    /\ UNCHANGED <<session, google_token, settings, bookings, blocked, participants, events, now, config, last>>

\* One worker serves the requests one at a time, and may fail.
FaultWorker == CHOOSE r \in Workers : TRUE

Fault == ApproveUpdateFails(FaultWorker) \/ Crash(FaultWorker)

NextFault ==
    \/ ConcSubmit
    \/ StepApprove(FaultWorker)
    \/ ConcReject
    \/ StepRemove(FaultWorker)
    \/ Fault

SpecFault == Init /\ [][NextFault]_vars

-----------------------------------------------------------------------------
(* Mail channels that fail *)

\* The answers of the Gmail API and of the SMTP server to one message:
\* delivered by the first channel, by the second, by neither.
MailAnswers == { <<TRUE, FALSE>>, <<FALSE, TRUE>>, <<FALSE, FALSE>> }

\* The steps of an Approve and of a Remove whose email may fail.
MailApprove(r) ==
    \/ \E id \in BookingIds, iv \in ApproveInputs : ApproveSelect(r, id, iv[1], iv[2])
    \/ \E svcOk \in BOOLEAN : ApproveInsert(r, svcOk, TRUE, FALSE)
    \/ ApproveUpdate(r)
    \/ \E a \in MailAnswers : ApproveMail(r, a[1], a[2])

MailRemove(r) ==
    \/ \E id \in BookingIds : RemoveSelect(r, id)
    \/ \E up \in BOOLEAN : RemoveDelete(r, TRUE, up, up)
    \/ RemoveUpdate(r)
    \/ \E a \in MailAnswers : RemoveMail(r, a[1], a[2])

NextMail ==
    \/ ConcSubmit
    \/ MailApprove(FaultWorker)
    \/ ConcReject
    \/ MailRemove(FaultWorker)

SpecMail == Init /\ [][NextMail]_vars

-----------------------------------------------------------------------------
(* admin_block_slot, admin_unblock_slot and invite *)

\* POST /admin/block-slot.  iv is the pair of the start_time and end_time
\* form fields, Absent if one of them is missing.  The table may hold the
\* same pair in several rows; is_free and the DELETE of unblock only ask
\* whether a pair is present, so the table is kept as a set.
admin_block_slot(iv) ==
    /\ IF iv = Absent
       THEN /\ blocked' = blocked
            /\ last' = [op |-> "block", bid |-> 0, resp |-> "invalid_slot",
                        calls |-> <<>>, mails |-> <<>>]
       ELSE /\ blocked' = blocked \cup {iv}
            /\ last' = [op |-> "block", bid |-> 0, resp |-> "slot_blocked",
                        calls |-> <<>>, mails |-> <<>>]
    /\ UNCHANGED <<session, google_token, settings, bookings, participants, events, now, config, reqs>>

\* POST /admin/unblock-slot: DELETE ... WHERE start_time=? AND end_time=?
admin_unblock_slot(iv) ==
    /\ IF iv = Absent
       THEN /\ blocked' = blocked
            /\ last' = [op |-> "unblock", bid |-> 0, resp |-> "invalid_slot",
                        calls |-> <<>>, mails |-> <<>>]
       ELSE /\ blocked' = blocked \ {iv}
            /\ last' = [op |-> "unblock", bid |-> 0, resp |-> "slot_unblocked",
                        calls |-> <<>>, mails |-> <<>>]
    /\ UNCHANGED <<session, google_token, settings, bookings, participants, events, now, config, reqs>>

\* The slots of the page: for each day shown, one slot per hour of
\* range(9, 25), hour 24 being 00:00 of the next day.
MinutesPerDay   == 1440
FirstViewHour   == 9
LastViewHour    == 24
SlotsPerDay     == LastViewHour - FirstViewHour + 1

InviteSlots ==
    [ i \in 1..(DaysShown * SlotsPerDay) |->
        LET d == (i - 1) \div SlotsPerDay
            h == FirstViewHour + ((i - 1) % SlotsPerDay)
            s == d * MinutesPerDay + h * OneHour
        IN  <<s, s + OneHour>> ]

\* Mutant of SlotStatus: a calendar that is not connected is not looked at,
\* and the slot is offered.
SlotStatus_FailOpen(s, e, nowl, calendar_available, blk, evs, calId) ==
    IF s <= nowl THEN "past"
    ELSE IF ~calendar_available THEN "available"
    ELSE IF is_free(blk, evs, calId, s, e) THEN "available"
    ELSE "unavailable"

\* The status of one slot of the page.
SlotStatus(s, e, nowl, calendar_available, blk, evs, calId) ==
    IF s <= nowl THEN "past"
    ELSE IF ~calendar_available THEN "unavailable"
    ELSE IF is_free(blk, evs, calId, s, e) THEN "available"
    ELSE "unavailable"

\* The entry of one slot: its status, and the booking URL (token, start,
\* end) if it is available.
SlotEntry(token, s, e, nowl, calendar_available, blk, evs, calId) ==
    LET st == SlotStatus(s, e, nowl, calendar_available, blk, evs, calId)
    IN  [start |-> s, end |-> e, status |-> st,
         url |-> IF st = "available" THEN <<token, s, e>> ELSE <<>>]

\* GET /invite/<token>.  svcOk: calendar_service() returns; fbOk: the
\* free/busy queries of is_free answer.  is_free is called outside any try:
\* a query that raises ends the request with a 500.  A slot that is past, or
\* found in blocked_slots, needs no query.
invite(token, svcOk, fbOk) ==
    LET queried == { i \in DOMAIN InviteSlots :
                        /\ InviteSlots[i][1] > now
                        /\ InviteSlots[i] \notin blocked }
        out == IF ParticipantsByToken(participants, token) = {} THEN "abort_404"
               ELSE IF svcOk /\ ~fbOk /\ queried # {} THEN "error_500"
               ELSE "page"
    IN  /\ last' = [op |-> "invite", bid |-> 0, resp |-> out,
                    calls |-> <<>>, mails |-> <<>>,
                    req |-> <<token, svcOk>>,
                    slots |-> IF out = "page"
                              THEN [ i \in DOMAIN InviteSlots |->
                                       SlotEntry(token, InviteSlots[i][1], InviteSlots[i][2],
                                                 now, svcOk, blocked, events,
                                                 config.CALENDAR_ID) ]
                              ELSE <<>>]
        /\ UNCHANGED <<session, google_token, settings, bookings, blocked, participants, events, now, config, reqs>>

-----------------------------------------------------------------------------
(* The participant's side: the page, submissions, blocked slots, the clock *)

\* 10:00-11:00 and 11:00-12:00: with 09:00-10:00 the hour slots around a
\* busy 10:00-11:00.
SlotC == <<600, 660>>
SlotD == <<660, 720>>

\* The /book requests of this specification: a single candidate 10:00-11:00
\* (which an Approve then makes busy); three candidates, and two sent as
\* start2/end2 and start3/end3, around it; a candidate off the hour grid; a second candidate of ninety minutes and one
\* before 09:00; an unknown token, no candidate, no calendar service, and a
\* free/busy query that raises at the second candidate.
SlotBookRequests ==
    { <<"tokA",    <<SlotC, Absent, Absent>>,     TRUE,  0>>,
      <<"tokB",    <<SlotA, SlotC, SlotD>>,       TRUE,  0>>,
      <<"tokB",    <<Absent, SlotA, SlotD>>,      TRUE,  0>>,
      <<"tokA",    <<SlotB, Absent, Absent>>,     TRUE,  0>>,
      <<"tokA",    <<SlotD, SlotLong, Absent>>,   TRUE,  0>>,
      <<"tokB",    <<SlotD, SlotEarly, Absent>>,  TRUE,  0>>,
      <<"unknown", <<SlotD, Absent, Absent>>,     TRUE,  0>>,
      <<"tokA",    <<Absent, Absent, Absent>>,    TRUE,  0>>,
      <<"tokA",    <<SlotD, Absent, Absent>>,     FALSE, 0>>,
      <<"tokA",    <<SlotD, SlotC, Absent>>,      TRUE,  2>> }

\* What the admin blocks and unblocks: 09:00-10:00, and a form with a field
\* missing.
BlockInputs == { SlotA, Absent }

SlotSubmit ==
    \E rq \in SlotBookRequests : book(rq[1], rq[2], rq[3], rq[4], MaxSlotBookings)

\* Approve for 10:00-11:00, the event inserted on the configured calendar or
\* (the first insert failing) on the fallback.
SlotApprove ==
    \E id \in DOMAIN bookings, ok1 \in BOOLEAN :
        approve(id, SlotC[1], SlotC[2], TRUE, ok1, TRUE, TRUE, FALSE)

Block == \E iv \in BlockInputs : admin_block_slot(iv)

Unblock == \E iv \in BlockInputs : admin_unblock_slot(iv)

Invite ==
    \E token \in {"tokA", "unknown"}, a \in {<<TRUE, TRUE>>, <<TRUE, FALSE>>, <<FALSE, TRUE>>} :
        invite(token, a[1], a[2])

\* The clock advances.
Tick ==
    /\ now < MaxNow
    /\ now' = now + TickStep
    /\ UNCHANGED <<session, google_token, settings, bookings, blocked, participants, events, config, reqs, last>>

NextSlots == SlotSubmit \/ SlotApprove \/ Block \/ Unblock \/ Invite \/ Tick

SpecSlots == Init /\ [][NextSlots]_vars

-----------------------------------------------------------------------------
(* Properties of the lifecycle, requests served one at a time *)

Statuses == {"pending", "confirmed", "rejected", "removed_by_admin"}

AllowedTransitions ==
    { <<"pending", "confirmed">>, <<"pending", "rejected">>,
      <<"confirmed", "removed_by_admin">> }

\* The ids of the events the application inserted for booking i.
EventsOf(evs, i) == { k \in DOMAIN evs : evs[k].bid = i }

\* The stored candidates of a row.
Preferences(b) ==
    { <<b.preference1_start, b.preference1_end>>,
      <<b.preference2_start, b.preference2_end>>,
      <<b.preference3_start, b.preference3_end>> } \ { <<NULL, NULL>> }

\* C1: served one at a time, no request removes a row, a new row is pending,
\* a status changes only along pending -> confirmed, pending -> rejected or
\* confirmed -> removed_by_admin, and once a row is rejected or
\* removed_by_admin no request changes any of its fields or inserts a
\* calendar event for it.
C1_LifecycleTransitions ==
    [][ /\ Len(bookings') >= Len(bookings)
        /\ \A i \in DOMAIN bookings' \ DOMAIN bookings :
              bookings'[i].status = "pending"
        /\ \A i \in DOMAIN bookings :
              /\ bookings'[i].status # bookings[i].status
                    => <<bookings[i].status, bookings'[i].status>> \in AllowedTransitions
              /\ bookings[i].status \in {"rejected", "removed_by_admin"}
                    => /\ bookings'[i] = bookings[i]
                       /\ EventsOf(events', i) = EventsOf(events, i) ]_vars

\* C1 witness: an Approve was just answered for a booking that is rejected.
C1_Witness ==
    /\ last.op = "approve"
    /\ last.bid \in DOMAIN bookings
    /\ bookings[last.bid].status = "rejected"
    /\ EventsOf(events, last.bid) = {}

\* C2: no two confirmed bookings have overlapping selected intervals.
C2_NoDoubleBooking ==
    \A i, j \in DOMAIN bookings :
        (i # j /\ bookings[i].status = "confirmed" /\ bookings[j].status = "confirmed")
            => ~Overlaps(bookings[i].selected_start_time, bookings[i].selected_end_time,
                         bookings[j].selected_start_time, bookings[j].selected_end_time)

\* C3: selected_start_time/selected_end_time are non-null iff status=confirmed.
C3_SelectedIffConfirmed ==
    \A i \in DOMAIN bookings :
        (bookings[i].selected_start_time # NULL /\ bookings[i].selected_end_time # NULL)
            <=> bookings[i].status = "confirmed"

\* C4: calendar_event_id is non-null iff status=confirmed.
C4_EventIdIffConfirmed ==
    \A i \in DOMAIN bookings :
        bookings[i].calendar_event_id # NULL <=> bookings[i].status = "confirmed"

\* C4 witness: a Remove whose delete calls all failed was just answered, and
\* the row is removed_by_admin with its event id cleared.
C4_Witness ==
    /\ last.op = "remove"
    /\ last.resp = "booking_removed"
    /\ last.calls # <<>>
    /\ ~last.calls[Len(last.calls)].ok
    /\ bookings[last.bid].status = "removed_by_admin"
    /\ bookings[last.bid].calendar_event_id = NULL

\* C5: an Approve of a booking that is not pending changes no row, makes no
\* events.insert call and inserts no event; and every confirmed booking has
\* exactly one event.
C5_SecondApproveNoOp ==
    [][ /\ \A i \in DOMAIN bookings :
             ( /\ bookings[i].status # "pending"
               /\ last' # last
               /\ last'.op = "approve"
               /\ last'.bid = i )
             => /\ bookings' = bookings
                /\ events' = events
                /\ last'.calls = <<>>
        /\ \A i \in DOMAIN bookings' :
             bookings'[i].status = "confirmed"
                => Cardinality(EventsOf(events', i)) = 1 ]_vars

\* C5 witness: an Approve was just answered for a confirmed booking.
C5_Witness ==
    /\ last.op = "approve"
    /\ last.resp = "admin"
    /\ last.bid \in DOMAIN bookings
    /\ bookings[last.bid].status = "confirmed"
    /\ Cardinality(EventsOf(events, last.bid)) = 1

\* C8: the selected interval of a confirmed booking is one of its stored
\* candidates.
C8_SelectedIsCandidate ==
    \A i \in DOMAIN bookings :
        bookings[i].status = "confirmed"
            => <<bookings[i].selected_start_time, bookings[i].selected_end_time>>
                  \in Preferences(bookings[i])

\* C9: an Approve of a pending booking whose calendar service could not be
\* obtained (no insert call was made) or whose last insert call failed leaves
\* every row as it was, the booking pending with selected interval, event id
\* and admin_confirmed_at null, inserts no event and sends no email.
C9_ApproveFailureNoChange ==
    [][ \A i \in DOMAIN bookings :
          ( /\ bookings[i].status = "pending"
            /\ last' # last
            /\ last'.op = "approve"
            /\ last'.bid = i
            /\ (last'.calls = <<>> \/ ~last'.calls[Len(last'.calls)].ok) )
          => /\ bookings' = bookings
             /\ events' = events
             /\ bookings'[i].status = "pending"
             /\ bookings'[i].selected_start_time = NULL
             /\ bookings'[i].selected_end_time = NULL
             /\ bookings'[i].calendar_event_id = NULL
             /\ bookings'[i].admin_confirmed_at = NULL
             /\ last'.mails = <<>> ]_vars

\* C9 witness: an Approve whose insert failed on the configured calendar and
\* on the fallback was just answered, and the booking is pending.
C9_Witness ==
    /\ last.op = "approve"
    /\ Len(last.calls) = 2
    /\ ~last.calls[1].ok /\ ~last.calls[2].ok
    /\ bookings[last.bid].status = "pending"

-----------------------------------------------------------------------------
(* Properties of concurrent and failing requests *)

\* C6: the application inserts at most one calendar event for a booking, and
\* the calendar_event_id of a confirmed booking is that event.
C6_OneEventPerBooking ==
    \A i \in DOMAIN bookings :
        /\ Cardinality(EventsOf(events, i)) <= 1
        /\ bookings[i].status = "confirmed"
              => EventsOf(events, i) = {bookings[i].calendar_event_id}

\* C7: a booking that is rejected or removed_by_admin never becomes
\* confirmed.
C7_NoResurrection ==
    [][ \A i \in DOMAIN bookings :
          bookings[i].status \in {"rejected", "removed_by_admin"}
             => bookings'[i].status # "confirmed" ]_vars

\* C10: when no request is in flight, no live calendar event belongs to a
\* booking that is still pending.
C10_NoOrphanedEvent ==
    (\A r \in Workers : reqs[r].pc = "idle")
        => \A k \in DOMAIN events :
              events[k].live => bookings[events[k].bid].status # "pending"

-----------------------------------------------------------------------------
(* Properties of Remove and of the answers of the admin handlers *)

\* C11: a Remove answered for a confirmed booking leaves the booking
\* removed_by_admin with calendar_event_id NULL, whatever the calendar did:
\* the delete calls failed, or the calendar service could not be obtained.
C11_RemoveAlwaysRemoves ==
    [][ \A i \in DOMAIN bookings :
          ( /\ bookings[i].status = "confirmed"
            /\ last' # last
            /\ last'.op = "remove"
            /\ last'.bid = i )
          => /\ bookings'[i].status = "removed_by_admin"
             /\ bookings'[i].calendar_event_id = NULL ]_vars

\* C12: once a Remove has taken a booking to removed_by_admin, is_free
\* answers TRUE for the interval the booking was confirmed for, provided no
\* blocked slot and no live event of another booking overlaps it.  (The row
\* keeps its selected interval after the Remove.)
C12_RemovedSlotFree ==
    ( /\ last.op = "remove"
      /\ last.resp = "booking_removed" )
    => LET s == bookings[last.bid].selected_start_time
           e == bookings[last.bid].selected_end_time
       IN  ( /\ \A k \in blocked : ~Overlaps(s, e, k[1], k[2])
             /\ \A k \in DOMAIN events :
                   (events[k].live /\ events[k].bid # last.bid)
                      => ~Overlaps(s, e, events[k].start, events[k].end) )
           => is_free(blocked, events, config.CALENDAR_ID, s, e)

\* C16: a Reject makes no calendar call and sends no email, inserts and
\* deletes no event, and changes no row but the one it names; of that row,
\* if it is pending, it sets status to rejected and admin_confirmed_at and
\* leaves every other field (candidates, selected interval, event id) as it
\* was; if it is not pending, it changes nothing.
C16_RejectFrame ==
    [][ (last' # last /\ last'.op = "reject")
          => /\ last'.calls = <<>>
             /\ last'.mails = <<>>
             /\ events' = events
             /\ blocked' = blocked
             /\ DOMAIN bookings' = DOMAIN bookings
             /\ \A i \in DOMAIN bookings :
                   IF i = last'.bid /\ bookings[i].status = "pending"
                   THEN /\ bookings'[i].status = "rejected"
                        /\ bookings'[i].admin_confirmed_at # NULL
                        /\ bookings'[i] =
                              [bookings[i] EXCEPT
                                 !.status = "rejected",
                                 !.admin_confirmed_at = bookings'[i].admin_confirmed_at]
                   ELSE bookings'[i] = bookings[i] ]_vars

\* C16 witness: a Reject was just answered for a booking that is now
\* rejected, with its timestamp set and no selected interval or event.
C16_Witness ==
    /\ last.op = "reject"
    /\ last.bid \in DOMAIN bookings
    /\ bookings[last.bid].status = "rejected"
    /\ bookings[last.bid].admin_confirmed_at # NULL
    /\ bookings[last.bid].selected_start_time = NULL
    /\ bookings[last.bid].calendar_event_id = NULL
    /\ events = <<>>

\* C17: an Approve or a Reject of a booking that is not pending, and a Remove
\* of a booking that is not confirmed, change no row and no event and answer
\* "booking not found".
C17_WrongStateNotFound ==
    [][ \A i \in DOMAIN bookings :
          ( /\ last' # last
            /\ last'.bid = i
            /\ \/ last'.op \in {"approve", "reject"} /\ bookings[i].status # "pending"
               \/ last'.op = "remove" /\ bookings[i].status # "confirmed" )
          => /\ bookings' = bookings
             /\ events' = events
             /\ last'.resp = "booking_not_found" ]_vars

-----------------------------------------------------------------------------
(* The admin's session, the settings and the participants *)
(*                                                                         *)
(* session is the 'authenticated' flag of the one browser session that     *)
(* sends the requests; google_token says that the token file exists (the   *)
(* deployments considered set no GOOGLE_TOKEN_JSON, so that get_creds      *)
(* reads the file).                                                        *)

MaxParticipants == 4

HOST_BASE == "https://host"

\* The answer of require_auth to a request without the flag.
LoginRedirect == [op |-> "require_auth", bid |-> 0, resp |-> "login",
                  calls |-> <<>>, mails |-> <<>>]

\* An answer of a handler that makes no calendar call and sends no
\* confirmation or cancellation email.
Answer(op, resp, req, message) ==
    [op |-> op, bid |-> 0, resp |-> resp, calls |-> <<>>, mails |-> <<>>,
     req |-> req, message |-> message]

\* @require_auth: the handler runs only if the session has the flag;
\* otherwise the request is redirected to the login page.
require_auth(handler) ==
    IF session
    THEN handler
    ELSE /\ last' = LoginRedirect
         /\ UNCHANGED <<session, google_token, settings, bookings, blocked,
                        participants, events, now, config, reqs>>

\* POST /login: the flag is set if the username and the password match.
login(match) ==
    /\ session' = (session \/ match)
    /\ last' = Answer("login", IF match THEN "admin" ELSE "login_page", <<match>>, <<>>)
    /\ UNCHANGED <<google_token, settings, bookings, blocked, participants,
                   events, now, config, reqs>>

\* GET /oauth2callback of an admin sign-in: when the exchange with Google
\* succeeds the flag is set and save_creds writes the token file.
oauth2callback(exchanged) ==
    /\ session' = (session \/ exchanged)
    /\ google_token' = (google_token \/ exchanged)
    /\ last' = Answer("oauth2callback", IF exchanged THEN "admin" ELSE "login", <<exchanged>>, <<>>)
    /\ UNCHANGED <<settings, bookings, blocked, participants, events, now, config, reqs>>

\* GET /logout: session.clear()
logout ==
    /\ session' = FALSE
    /\ last' = Answer("logout", "login", <<>>, <<>>)
    /\ UNCHANGED <<google_token, settings, bookings, blocked, participants,
                   events, now, config, reqs>>

\* GET /reset-auth, which has no require_auth: the token file is removed,
\* the session cleared, and the browser sent to the Google sign-in.
reset_auth ==
    /\ google_token' = FALSE
    /\ session' = FALSE
    /\ last' = Answer("reset_auth", "google_login", <<>>, <<>>)
    /\ UNCHANGED <<settings, bookings, blocked, participants, events, now, config, reqs>>

\* GET /force-gmail-auth, which has no require_auth: the same removal,
\* followed by the redirect to Google's consent page.
force_gmail_auth ==
    /\ google_token' = FALSE
    /\ session' = FALSE
    /\ last' = Answer("force_gmail_auth", "google_consent", <<>>, <<>>)
    /\ UNCHANGED <<settings, bookings, blocked, participants, events, now, config, reqs>>

\* GET /clear-env-token, which has no require_auth: it removes
\* GOOGLE_TOKEN_JSON from the environment, which these deployments do not
\* set, and leaves the token file.
clear_env_token ==
    /\ last' = Answer("clear_env_token", "no_environment_token", <<>>, <<>>)
    /\ UNCHANGED <<session, google_token, settings, bookings, blocked,
                   participants, events, now, config, reqs>>

\* POST /admin/email
admin_email(body) ==
    /\ settings' = set_setting(settings, "email_body", body)
    /\ last' = Answer("email", "email_saved", <<"email_body", body>>, <<>>)
    /\ UNCHANGED <<session, google_token, bookings, blocked, participants,
                   events, now, config, reqs>>

\* POST /admin/consent
admin_consent(html) ==
    /\ settings' = set_setting(settings, "consent_html", html)
    /\ last' = Answer("consent", "consent_saved", <<"consent_html", html>>, <<>>)
    /\ UNCHANGED <<session, google_token, bookings, blocked, participants,
                   events, now, config, reqs>>

\* str.replace over fragments: every occurrence of old becomes new.
RECURSIVE replace(_, _, _)
replace(text, old, new) ==
    IF text = <<>> THEN <<>>
    ELSE (IF Head(text) = old THEN new ELSE <<Head(text)>>)
         \o replace(Tail(text), old, new)

\* The text send_initial_email builds itself, with the name and the link.
enhanced_body(to_name, link) ==
    << "Hi " >> \o to_name
    \o << ", ... $15 Amazon gift card ... your preferred time slot: CALENDAR LINK: " >>
    \o link
    \o << " ... INTERACTIVE CALENDAR SELECTION ... Professor Ali Mazalek" >>

\* send_initial_email: the message that is sent by SMTP or, without SMTP or
\* when SMTP fails, logged for manual sending.  The template is read and its
\* placeholders are substituted into body, which the function does not use
\* again.
send_initial_email(st, to_name, link) ==
    LET body_tpl == get_setting(st, "email_body")
        body     == replace(replace(body_tpl, "{{name}}", to_name), "{{link}}", link)
    IN  enhanced_body(to_name, link)

\* f"{HOST_BASE}/invite/{token}"
InviteLink(token) == << HOST_BASE, "/invite/", token >>

\* Mutant of InsertParticipant: the token column has no UNIQUE constraint.
InsertParticipant_NoUniqueToken(ps, row) ==
    [ok |-> TRUE, ps |-> Append(ps, row)]

\* INSERT INTO participants(name,email,token): the UNIQUE constraint on token
\* makes the statement raise sqlite3.IntegrityError when the token exists.
InsertParticipant(ps, row) ==
    IF ParticipantsByToken(ps, row.token) = {}
    THEN [ok |-> TRUE, ps |-> Append(ps, row)]
    ELSE [ok |-> FALSE, ps |-> ps]

\* The INSERTs of one `with db()` block: the first that raises ends the
\* block and rolls back those before it.
RECURSIVE InsertParticipants(_, _, _)
InsertParticipants(ps0, ps, rows) ==
    IF rows = <<>> THEN [ok |-> TRUE, ps |-> ps]
    ELSE LET r == InsertParticipant(ps, Head(rows))
         IN  IF r.ok THEN InsertParticipants(ps0, r.ps, Tail(rows))
             ELSE [ok |-> FALSE, ps |-> ps0]

\* The messages of the participants of rows, in order.
InitialEmails(st, rows) ==
    [k \in DOMAIN rows |->
        send_initial_email(st, <<rows[k].name>>, InviteLink(rows[k].token))]

\* POST /admin/participant with the token secrets.token_urlsafe returned.
\* The IntegrityError of the INSERT is not caught: the request ends with a
\* 500 before any email.
admin_participant(name, email, token) ==
    LET row == [name |-> name, email |-> email, token |-> token]
        r   == InsertParticipants(participants, participants, <<row>>)
    IN  /\ Len(r.ps) <= MaxParticipants
        /\ participants' = r.ps
        /\ last' = IF r.ok
                   THEN Answer("participant", "participant_added", <<row>>,
                               InitialEmails(settings, <<row>>))
                   ELSE Answer("participant", "error_500", <<row>>, <<>>)
        /\ UNCHANGED <<session, google_token, settings, bookings, blocked,
                       events, now, config, reqs>>

\* POST /admin/participants/batch with the names and emails of the form
\* (forms[k] = <<name, email>>; listsOk says that both lists are present and
\* of one length) and the tokens secrets.token_urlsafe returned.
admin_participants_batch(listsOk, forms, tokens) ==
    LET rows  == [k \in DOMAIN forms |->
                    [name |-> forms[k][1], email |-> forms[k][2], token |-> tokens[k]]]
        empty == { k \in DOMAIN forms : forms[k][1] = "" \/ forms[k][2] = "" }
        r     == InsertParticipants(participants, participants, rows)
    IN  /\ Len(r.ps) <= MaxParticipants
        /\ IF ~listsOk \/ forms = <<>>
           THEN /\ participants' = participants
                /\ last' = Answer("batch", "invalid_batch", rows, <<>>)
           ELSE IF empty # {}
           THEN /\ participants' = participants
                /\ last' = Answer("batch", "empty_fields", rows, <<>>)
           ELSE /\ participants' = r.ps
                /\ last' = IF r.ok
                           THEN Answer("batch", "batch_results", rows,
                                       InitialEmails(settings, rows))
                           ELSE Answer("batch", "error_500", rows, <<>>)
        /\ UNCHANGED <<session, google_token, settings, bookings, blocked,
                       events, now, config, reqs>>

\* The application is started again: init_db runs; the session survives if
\* FLASK_SECRET is set and is invalid under a newly drawn secret key.
restart(secretKept) ==
    /\ settings' = init_db(settings)
    /\ session' = (session /\ secretKept)
    /\ UNCHANGED <<google_token, bookings, blocked, participants, events, now,
                   config, reqs, last>>

\* The inputs of the admin's forms.
Templates ==
    { << "Dear ", "{{name}}", ", book at ", "{{link}}", ". Bye ", "{{name}}" >>,
      << >> }

ConsentTexts == { << "<p>Our consent text</p>" >> }

\* The tokens drawn for a new participant: a new one, and one that exists.
NewTokens == { "tokA", "tokC" }

\* The batches: the lists of the form, whether they are present and of one
\* length, and the tokens drawn.
BatchRequests ==
    { << FALSE, << <<"D", "d@x">> >>, << "tokD" >> >>,
      << TRUE,  << >>, << >> >>,
      << TRUE,  << <<"D", "d@x">>, <<"", "e@x">> >>,  << "tokD", "tokE" >> >>,
      << TRUE,  << <<"D", "d@x">>, <<"E", "e@x">> >>, << "tokD", "tokE" >> >>,
      << TRUE,  << <<"D", "d@x">>, <<"E", "e@x">> >>, << "tokD", "tokA" >> >>,
      << TRUE,  << <<"D", "d@x">>, <<"E", "e@x">> >>, << "tokE", "tokE" >> >> }

AdminBookRequests ==
    { <<"tokA", <<SlotA, Absent, Absent>>, TRUE, 0>>,
      <<"tokC", <<SlotB, SlotA, Absent>>, TRUE, 0>> }

\* The requests of the specification: those of the participants, those
\* that need no session, and those behind require_auth.  Without the token
\* file calendar_service() raises and the Gmail API channel fails.
AdminSubmit ==
    \E rq \in AdminBookRequests : book(rq[1], rq[2], rq[3] /\ google_token, rq[4], MaxBookings)

Login == \E match \in BOOLEAN : login(match)

OAuthCallback == \E exchanged \in BOOLEAN : oauth2callback(exchanged)

Logout == logout

ResetAuth == reset_auth

ForceGmailAuth == force_gmail_auth

ClearEnvToken == clear_env_token

AdminEmail == \E body \in Templates : require_auth(admin_email(body))

AdminConsent == \E html \in ConsentTexts : require_auth(admin_consent(html))

AdminParticipant ==
    \E token \in NewTokens : require_auth(admin_participant("C", "c@x", token))

AdminBatch ==
    \E rq \in BatchRequests :
        require_auth(admin_participants_batch(rq[1], rq[2], rq[3]))

AdminApprove ==
    \E id \in BookingIds, iv \in ApproveInputs :
        require_auth(approve(id, iv[1], iv[2], google_token, TRUE, FALSE,
                             google_token, TRUE))

AdminReject == \E id \in BookingIds : require_auth(reject(id))

AdminRemove ==
    \E id \in BookingIds :
        require_auth(remove(id, google_token, TRUE, TRUE, google_token, TRUE))

AdminBlock == \E iv \in BlockInputs : require_auth(admin_block_slot(iv))

AdminUnblock == \E iv \in BlockInputs : require_auth(admin_unblock_slot(iv))

Restart == \E secretKept \in BOOLEAN : restart(secretKept)

\* The admin signs in and out, edits the settings and creates participants,
\* and the application restarts.
NextAdmin ==
    \/ Login
    \/ OAuthCallback
    \/ Logout
    \/ AdminEmail
    \/ AdminConsent
    \/ AdminParticipant
    \/ AdminBatch
    \/ Restart

SpecAdmin == Init /\ [][NextAdmin]_vars

\* Requests arrive with and without the flag, on every route that writes.
NextAuth ==
    \/ AdminSubmit
    \/ Login
    \/ OAuthCallback
    \/ Logout
    \/ ResetAuth
    \/ ForceGmailAuth
    \/ ClearEnvToken
    \/ AdminEmail
    \/ AdminParticipant
    \/ AdminApprove
    \/ AdminReject
    \/ AdminRemove
    \/ AdminBlock
    \/ AdminUnblock

SpecAuth == Init /\ [][NextAuth]_vars

-----------------------------------------------------------------------------
(* Properties of the calendar calls, the emails and the stored candidates *)

C23_MailChannelOrder ==
    ( /\ last.op \in {"approve", "remove"}
      /\ last.mails # <<>> )
    => LET m == last.mails
       IN  /\ Len(m) <= 2
           /\ m[1].chan = "gmail"
           /\ Len(m) = 2 => (~m[1].ok /\ m[2].chan = "smtp")
           /\ m[1].ok => Len(m) = 1

\* C23 witness: an Approve was just answered whose confirmation email failed
\* on the Gmail API and went out by SMTP.
C23_Witness ==
    /\ last.op = "approve"
    /\ Len(last.mails) = 2
    /\ last.mails[1].chan = "gmail" /\ ~last.mails[1].ok
    /\ last.mails[2].chan = "smtp" /\ last.mails[2].ok

\* C24: the step that sends the email of an Approve or of a Remove finds the
\* row already written (confirmed with the selected interval and the event
\* id; removed_by_admin without event id), changes no row whatever the two
\* channels answer, and is answered as a success; and no email is attempted
\* by any other step.
C24_NotificationBestEffort ==
    [][ /\ \A r \in Workers :
              (reqs[r].pc = "mail" /\ reqs'[r].pc # "mail")
              => LET q == reqs[r]
                     b == bookings[q.id]
                 IN  /\ bookings' = bookings
                     /\ last'.op = q.op /\ last'.bid = q.id
                     /\ q.op = "approve"
                           => /\ last'.resp = "booking_approved"
                              /\ b.status = "confirmed"
                              /\ b.selected_start_time = q.s
                              /\ b.selected_end_time = q.e
                              /\ b.calendar_event_id = q.eid /\ q.eid # NULL
                     /\ q.op = "remove"
                           => /\ last'.resp = "booking_removed"
                              /\ b.status = "removed_by_admin"
                              /\ b.calendar_event_id = NULL
        /\ (last' # last /\ last'.mails # <<>>)
              => \E r \in Workers : reqs[r].pc = "mail" /\ reqs'[r].pc = "idle" ]_vars

\* C24 witness: an Approve was just answered as a success although both
\* channels failed, and its row is confirmed with the interval and the event.
C24_Witness ==
    /\ last.op = "approve"
    /\ Len(last.mails) = 2
    /\ ~last.mails[1].ok /\ ~last.mails[2].ok
    /\ last.resp = "booking_approved"
    /\ bookings[last.bid].status = "confirmed"
    /\ bookings[last.bid].selected_start_time # NULL
    /\ bookings[last.bid].calendar_event_id # NULL

\* C25: no request removes a row or changes the participant or the stored
\* candidates of a row.
C25_CandidatesImmutable ==
    [][ /\ Len(bookings') >= Len(bookings)
        /\ \A i \in DOMAIN bookings :
              /\ bookings'[i].participant_id = bookings[i].participant_id
              /\ bookings'[i].preference1_start = bookings[i].preference1_start
              /\ bookings'[i].preference1_end = bookings[i].preference1_end
              /\ bookings'[i].preference2_start = bookings[i].preference2_start
              /\ bookings'[i].preference2_end = bookings[i].preference2_end
              /\ bookings'[i].preference3_start = bookings[i].preference3_start
              /\ bookings'[i].preference3_end = bookings[i].preference3_end ]_vars

\* C25 witness: a booking of three candidates was approved for its second
\* candidate and then removed: the three candidates are as submitted.
C25_Witness ==
    /\ last.op = "remove"
    /\ last.resp = "booking_removed"
    /\ bookings[last.bid].status = "removed_by_admin"
    /\ bookings[last.bid].preference1_start = SlotB[1]
    /\ bookings[last.bid].preference2_start = SlotA[1]
    /\ bookings[last.bid].preference3_start = SlotB[1]
    /\ bookings[last.bid].selected_start_time = bookings[last.bid].preference2_start
    /\ bookings[last.bid].selected_end_time = bookings[last.bid].preference2_end

-----------------------------------------------------------------------------
(* Properties of book *)

\* A candidate passes: it lasts one hour, starts after now and not before
\* 09:00, and is_free answers TRUE for it.
SlotPasses(s, e) ==
    /\ e - s = OneHour
    /\ s > now
    /\ Hour(s) >= FirstHour
    /\ is_free(blocked, events, config.CALENDAR_ID, s, e)

\* The candidates of the request the last record describes.
LastSlots(l) == RequestSlots(l.req[2])

\* C13: a submission one of whose candidates does not pass inserts no row and
\* changes no row; a submission that changes the table appends one row, all
\* its candidates having passed.
C13_SubmitAllOrNothing ==
    [][ (last' # last /\ last'.op = "book")
          => LET slots   == LastSlots(last')
                 allPass == \A i \in DOMAIN slots : SlotPasses(slots[i][1], slots[i][2])
             IN  /\ ~allPass => bookings' = bookings
                 /\ bookings' # bookings
                      => /\ allPass
                         /\ Len(bookings') = Len(bookings) + 1
                         /\ SubSeq(bookings', 1, Len(bookings)) = bookings ]_vars

\* C13 witness: a submission of three candidates, the first passing and the
\* second taken, was just answered, and no row stores its candidates.
C13_Witness ==
    /\ last.op = "book"
    /\ last.resp = "taken"
    /\ Len(LastSlots(last)) = 3
    /\ SlotPasses(LastSlots(last)[1][1], LastSlots(last)[1][2])
    /\ ~is_free(blocked, events, config.CALENDAR_ID,
                LastSlots(last)[2][1], LastSlots(last)[2][2])
    /\ \A i \in DOMAIN bookings :
          Preferences(bookings[i]) # { LastSlots(last)[j] : j \in 1..3 }

-----------------------------------------------------------------------------
(* Properties of is_free and of the page *)

\* The one-hour intervals is_free is asked about: every half hour from
\* 09:00-10:00 to 11:00-12:00.
SlotE == <<630, 690>>
ProbeSlots == { SlotA, SlotB, SlotC, SlotD, SlotE }

\* The live events of the calendar the free/busy query asks about.
BusyEvents ==
    { k \in DOMAIN events : events[k].live /\ events[k].cal = config.CALENDAR_ID }

\* C18: for an interval [s, e) that is not a blocked slot, is_free answers
\* FALSE exactly when some busy interval [bs, be) of the calendar has
\* NOT (e <= bs OR s >= be), the one-minute padding of the query window
\* notwithstanding: with 10:00-11:00 busy, 09:00-10:00 and 11:00-12:00 are
\* free and 09:30-10:30 is not.
C18_HalfOpenOverlap ==
    /\ \A c \in ProbeSlots :
          c \notin blocked
             => ( is_free(blocked, events, config.CALENDAR_ID, c[1], c[2])
                    <=> ~\E k \in BusyEvents :
                           ~(c[2] <= events[k].start \/ c[1] >= events[k].end) )
    /\ ( /\ blocked = {}
         /\ BusyEvents # {}
         /\ \A k \in BusyEvents : <<events[k].start, events[k].end>> = SlotC )
       => /\ is_free(blocked, events, config.CALENDAR_ID, SlotA[1], SlotA[2])
          /\ is_free(blocked, events, config.CALENDAR_ID, SlotD[1], SlotD[2])
          /\ ~is_free(blocked, events, config.CALENDAR_ID, SlotB[1], SlotB[2])

\* C18 witness: 10:00-11:00 is busy, nothing is blocked, and the page just
\* rendered offers 09:00 and 11:00 and not 10:00.
C18_Witness ==
    /\ last.op = "invite"
    /\ last.resp = "page"
    /\ blocked = {}
    /\ \E k \in BusyEvents : <<events[k].start, events[k].end>> = SlotC
    /\ last.slots[1].start = SlotA[1] /\ last.slots[1].status = "available"
    /\ last.slots[2].start = SlotC[1] /\ last.slots[2].status = "unavailable"
    /\ last.slots[3].start = SlotD[1] /\ last.slots[3].status = "available"
    /\ ~is_free(blocked, events, config.CALENDAR_ID, SlotB[1], SlotB[2])

\* C19: is_free answers FALSE for every one-hour interval book accepts that
\* overlaps a blocked slot, whatever the calendar answers.
C19_BlockedOverlapUnavailable ==
    \A c \in ProbeSlots :
        ( /\ SlotRule(c[1], c[2], now) = "ok"
          /\ \E b \in blocked : ~(c[2] <= b[1] \/ c[1] >= b[2]) )
        => ~is_free(blocked, events, config.CALENDAR_ID, c[1], c[2])

\* C20: the page has an entry for every slot; a slot is past iff its start
\* is not after now; it is available only if the calendar service was
\* obtained and is_free answers TRUE; without the calendar service every
\* slot that is not past is unavailable; and only an available slot has a
\* booking URL.
C20_SlotClassification ==
    [][ (last' # last /\ last'.op = "invite" /\ last'.resp = "page")
          => /\ DOMAIN last'.slots = DOMAIN InviteSlots
             /\ \A i \in DOMAIN last'.slots :
                   LET x == last'.slots[i]
                   IN  /\ <<x.start, x.end>> = InviteSlots[i]
                       /\ x.status \in {"past", "available", "unavailable"}
                       /\ x.status = "past" <=> x.start <= now
                       /\ x.status = "available"
                             => /\ last'.req[2]
                                /\ is_free(blocked, events, config.CALENDAR_ID,
                                           x.start, x.end)
                       /\ (~last'.req[2] /\ x.start > now) => x.status = "unavailable"
                       /\ x.status # "available" => x.url = <<>> ]_vars

\* C20 witness: a page was just rendered without the calendar service: the
\* 09:00 slot, which starts now, is past, every other slot is unavailable,
\* and no slot has a URL.
C20_Witness ==
    /\ last.op = "invite"
    /\ last.resp = "page"
    /\ ~last.req[2]
    /\ last.slots[1].start = now
    /\ last.slots[1].status = "past"
    /\ \A i \in DOMAIN last.slots :
          /\ i > 1 => last.slots[i].status = "unavailable"
          /\ last.slots[i].url = <<>>

\* C21: a request for the page by a known token is answered with the page,
\* also when a free/busy query raises: the slots concerned are unavailable.
C21_PageDespiteQueryFailure ==
    ( /\ last.op = "invite"
      /\ ParticipantsByToken(participants, last.req[1]) # {} )
    => /\ last.resp = "page"
       /\ DOMAIN last.slots = DOMAIN InviteSlots

\* C29: no slot the page marks available is refused by book as outside the
\* bookable hours.
C29_OfferedSlotInWindow ==
    ( /\ last.op = "invite"
      /\ last.resp = "page" )
    => \A i \in DOMAIN last.slots :
          last.slots[i].status = "available"
             => SlotRule(last.slots[i].start, last.slots[i].end, now) # "outside_hours"

-----------------------------------------------------------------------------
(* Properties of the settings, the participants and the admin's session *)

\* C26: the value get_setting returns for a key changes only in a step in
\* which the admin, signed in, saves that value for that key; in particular
\* not when the application restarts.
C26_SettingChangedOnlyBySave ==
    [][ \A k \in DOMAIN settings' :
           get_setting(settings', k) # get_setting(settings, k)
           => /\ session
              /\ last'.op \in {"email", "consent"}
              /\ last'.req = <<k, get_setting(settings', k)>> ]_vars

\* C27: the message sent or logged for a participant just created is the
\* stored template with every {{name}} replaced by the participant's name
\* and every {{link}} by the participant's link.
C27_InvitationFromTemplate ==
    [][ ( /\ last'.op \in {"participant", "batch"}
          /\ participants' # participants )
        => \A k \in DOMAIN last'.message :
              last'.message[k] =
                 replace(replace(get_setting(settings, "email_body"),
                                 "{{name}}", <<last'.req[k].name>>),
                         "{{link}}", InviteLink(last'.req[k].token)) ]_vars

\* C28: no two participants have one token; a step leaves every participant
\* as it is and adds participants only in a creation request of the signed-in
\* admin, namely the rows of the request; and a creation whose token exists
\* is answered with an error and adds none.
C28_ParticipantsUniqueAppendOnly ==
    [][ /\ \A i, j \in DOMAIN participants :
              participants[i].token = participants[j].token => i = j
        /\ \A i, j \in DOMAIN participants' :
              participants'[i].token = participants'[j].token => i = j
        /\ Len(participants') >= Len(participants)
        /\ \A i \in DOMAIN participants : participants'[i] = participants[i]
        /\ participants' # participants
              => /\ session
                 /\ last'.op \in {"participant", "batch"}
                 /\ participants' = participants \o last'.req
        /\ ( /\ last'.op = "participant"
             /\ last' # last
             /\ ParticipantsByToken(participants, last'.req[1].token) # {} )
              => /\ participants' = participants
                 /\ last'.resp = "error_500" ]_vars

\* C28 witness: the creation of a participant whose token another
\* participant has was just answered with an error, and added no row.
C28_Witness ==
    /\ last.op = "participant"
    /\ last.resp = "error_500"
    /\ Cardinality(ParticipantsByToken(participants, last.req[1].token)) = 1
    /\ \A i \in DOMAIN participants : participants[i].name # last.req[1].name

\* C30: a request of a session without the flag leaves the blocked slots,
\* the participants, the settings, the events and the existing bookings as
\* they are, makes no calendar call and sends no email, and does not remove
\* the stored Google credentials.
C30_NoAdminEffectWithoutSession ==
    [][ ~session
        => /\ blocked' = blocked
           /\ participants' = participants
           /\ settings' = settings
           /\ events' = events
           /\ \A i \in DOMAIN bookings :
                 i \in DOMAIN bookings' /\ bookings'[i] = bookings[i]
           /\ last' # last => (last'.calls = <<>> /\ last'.mails = <<>>)
           /\ google_token => google_token' ]_vars


====
